---------------------------- MODULE Spec2Model ----------------------------
(***************************************************************************)
(* DBManager (src/db_manager.py): a data access object over two PostgreSQL *)
(* tables, companies and vacancies.  The model keeps the two tables as the *)
(* state, one action per public method, and the part of the database       *)
(* engine the methods rely on (casts, NOT NULL, PRIMARY KEY with           *)
(* ON CONFLICT DO NOTHING, UNIQUE, REFERENCES, int4 arithmetic, AVG).      *)
(*                                                                         *)
(* Values.  A Python value that may be None and a nullable SQL column are  *)
(* both written as a sequence of length at most one: None / NULL is << >>, *)
(* the value v is <<v>>.  psycopg2 adapts None to NULL, so the two share   *)
(* one representation.  A Python dict is a function whose DOMAIN is the    *)
(* set of keys present, so "key in d" is  key \in DOMAIN d.                *)
(***************************************************************************)
EXTENDS Integers, Sequences, FiniteSets, Bags, TLC

VARIABLES
    companies,   \* table companies: set of rows [id, name, url]
    vacancies,   \* table vacancies: set of rows [id, company_id, name, salary_from, salary_to, currency, url]
    op,          \* the method that has just run, "idle" between calls
    args,        \* the arguments of that call
    result,      \* what the call returned (None when it raised or returns nothing)
    raised,      \* the exception that left the call, "none" when it returned normally
    printed,     \* what the call wrote to stdout
    stmts,       \* the number of cursor.execute calls the call made
    pc,          \* "caller", or "filter" between the two statements of
                 \* get_vacancies_with_higher_salary
    avg_salary   \* the local avg_salary of get_vacancies_with_higher_salary

vars == <<companies, vacancies, op, args, result, raised, printed, stmts,
          pc, avg_salary>>

None == << >>
Some(v) == <<v>>

\* dict.get(key): the value, or None when the key is absent.
Get(d, key) == IF key \in DOMAIN d THEN d[key] ELSE None

Restrict(r, K) == [k \in K |-> r[k]]

----------------------------------------------------------------------------
(* Bounds of the model and constants of the schema. *)

MaxSalary == 1

IntMax == 2147483647         \* INT is int4
VarcharName == 255           \* name VARCHAR(255)
VarcharCurrency == 10        \* currency VARCHAR(10)

\* A salary too large for two of them to be added in int4.
Big == IntMax \div 2 + 1

CompanyIdValues == {1, 2}
SmallSalaries == 0..MaxSalary
SalaryValues == SmallSalaries \cup {Big}
CompanyNames == {"Acme", "Beta"}
\* A name one character longer than VARCHAR(255) takes.
LongName ==
    "Acme Holding Acme Holding Acme Holding Acme Holding Acme Holding Acme Holding Acme Holding Acme Holding Acme Holding Acme Holding Acme Holding Acme Holding Acme Holding Acme Holding Acme Holding Acme Holding Acme Holding Acme Holding Acme Holding Acme HolX"
\* The first 255 characters of it followed by one space.
PaddedName == SubSeq(LongName, 1, VarcharName) \o " "
VacancyIdValues == {10, 11}
\* Empty, short, eleven characters ending in "$", and "USD" with eight spaces.
CurrencyValues == {"", "USD", "US DOLLAR $", "USD        "}

----------------------------------------------------------------------------
(* The database engine: what PostgreSQL does with the statements issued. *)

\* Assignment to a VARCHAR(n) column.  A string of at most n characters is
\* stored as it is; a longer one whose characters after the n-th are all
\* spaces is cut to n characters and stored; any other longer string raises
\* "value too long for type character varying(n)".  NULL passes.
ExcessIsSpaces(s, n) == \A i \in (n + 1)..Len(s) : SubSeq(s, i, i) = " "
VarcharFits(v, n) == v = None \/ Len(v[1]) <= n \/ ExcessIsSpaces(v[1], n)
VarcharStore(v, n) ==
    IF v = None \/ Len(v[1]) <= n THEN v ELSE Some(SubSeq(v[1], 1, n))

PkConflict(table, id) == \E r \in table : r.id = id[1]

\* Variant: ON CONFLICT (id) DO UPDATE SET name = EXCLUDED.name, url = EXCLUDED.url
InsertCompanyUpdating(cs, id, name, url) ==
    IF ~VarcharFits(name, VarcharName)
      THEN [status |-> "StringDataRightTruncation", rows |-> cs]
    ELSE IF id = None \/ name = None
      THEN [status |-> "NotNullViolation", rows |-> cs]
    ELSE IF \E c \in cs : c.id # id[1] /\ c.name = VarcharStore(name, VarcharName)[1]
      THEN [status |-> "UniqueViolation", rows |-> cs]
    ELSE [status |-> "ok",
          rows |-> {c \in cs : c.id # id[1]}
                     \cup {[id |-> id[1], name |-> VarcharStore(name, VarcharName)[1],
                            url |-> url]}]

\* Variant: ON CONFLICT DO NOTHING with no target, which skips a row that
\* conflicts on any unique index.
InsertCompanyAnyConflict(cs, id, name, url) ==
    IF ~VarcharFits(name, VarcharName)
      THEN [status |-> "StringDataRightTruncation", rows |-> cs]
    ELSE IF id = None \/ name = None
      THEN [status |-> "NotNullViolation", rows |-> cs]
    ELSE IF \E c \in cs : c.id = id[1] \/ c.name = VarcharStore(name, VarcharName)[1]
      THEN [status |-> "ok", rows |-> cs]
    ELSE [status |-> "ok",
          rows |-> cs \cup {[id |-> id[1], name |-> VarcharStore(name, VarcharName)[1],
                             url |-> url]}]

\* Variant: name VARCHAR(255) NOT NULL, without UNIQUE.
InsertCompanyNoUnique(cs, id, name, url) ==
    IF ~VarcharFits(name, VarcharName)
      THEN [status |-> "StringDataRightTruncation", rows |-> cs]
    ELSE IF id = None \/ name = None
      THEN [status |-> "NotNullViolation", rows |-> cs]
    ELSE IF PkConflict(cs, id)
      THEN [status |-> "ok", rows |-> cs]
    ELSE [status |-> "ok",
          rows |-> cs \cup {[id |-> id[1], name |-> VarcharStore(name, VarcharName)[1],
                             url |-> url]}]

\* INSERT INTO companies (id, name, url) VALUES (..) ON CONFLICT (id) DO NOTHING
\* The engine casts the values, checks NOT NULL, then looks for a conflict on
\* the arbiter index (id); only a row that is really inserted is checked
\* against the UNIQUE index on name, with the name as it is stored.
InsertCompanySQL(cs, id, name, url) ==
    IF ~VarcharFits(name, VarcharName)
      THEN [status |-> "StringDataRightTruncation", rows |-> cs]
    ELSE IF id = None \/ name = None
      THEN [status |-> "NotNullViolation", rows |-> cs]
    ELSE IF PkConflict(cs, id)
      THEN [status |-> "ok", rows |-> cs]
    ELSE IF \E c \in cs : c.name = VarcharStore(name, VarcharName)[1]
      THEN [status |-> "UniqueViolation", rows |-> cs]
    ELSE [status |-> "ok",
          rows |-> cs \cup {[id |-> id[1], name |-> VarcharStore(name, VarcharName)[1],
                             url |-> url]}]

\* company_id INT REFERENCES companies(id): checked for a row that is inserted.
FkHolds(cs, company_id) ==
    company_id = None \/ \E c \in cs : c.id = company_id[1]

\* INSERT INTO vacancies (..) VALUES (..) ON CONFLICT (id) DO NOTHING
InsertVacancySQL(cs, vs, id, company_id, name, salary_from, salary_to, currency, url) ==
    IF ~VarcharFits(name, VarcharName) \/ ~VarcharFits(currency, VarcharCurrency)
      THEN [status |-> "StringDataRightTruncation", rows |-> vs]
    ELSE IF id = None
      THEN [status |-> "NotNullViolation", rows |-> vs]
    ELSE IF PkConflict(vs, id)
      THEN [status |-> "ok", rows |-> vs]
    ELSE IF ~FkHolds(cs, company_id)
      THEN [status |-> "ForeignKeyViolation", rows |-> vs]
    ELSE [status |-> "ok",
          rows |-> vs \cup {[id |-> id[1], company_id |-> company_id,
                             name |-> VarcharStore(name, VarcharName),
                             salary_from |-> salary_from, salary_to |-> salary_to,
                             currency |-> VarcharStore(currency, VarcharCurrency),
                             url |-> url]}]

\* int4 addition raises "integer out of range" instead of wrapping.
IntMin == -IntMax - 1
AddOverflows(a, b) ==
    \/ a > 0 /\ b > 0 /\ a > IntMax - b
    \/ a < 0 /\ b < 0 /\ a < IntMin - b

\* int4 / int4 truncates toward zero.
Div2(x) == IF x >= 0 THEN x \div 2 ELSE -((-x) \div 2)

\* (salary_from + salary_to) / 2 of a row whose two bounds are not NULL.
Midpoint(v) == Div2(v.salary_from[1] + v.salary_to[1])
MidpointOverflows(v) == AddOverflows(v.salary_from[1], v.salary_to[1])
BothBounds(v) == v.salary_from # None /\ v.salary_to # None

RECURSIVE SumMidpoints(_)
SumMidpoints(rows) ==
    IF rows = {} THEN 0
    ELSE LET v == CHOOSE r \in rows : TRUE
         IN  Midpoint(v) + SumMidpoints(rows \ {v})

\* The rows of a result, in no order: a bag of the tuples f(r), r in S.
RowsOf(S, f(_)) ==
    [t \in {f(r) : r \in S} |-> Cardinality({r \in S : f(r) = t})]

\* Variant: JOIN instead of LEFT JOIN, so a company without a vacancy has no row.
CountInnerJoin(cs, vs) ==
    LET Joined(c) == {v \in vs : v.company_id = Some(c.id)}
        Group(n) == {c \in cs : c.name = n}
        Count(n) == Cardinality({<<c, v>> \in cs \X vs :
                                    c \in Group(n) /\ v \in Joined(c)})
    IN  SetToBag({<<n, Count(n)>> : n \in {c.name : c \in {d \in cs : Joined(d) # {}}}})

\* SELECT c.name, COUNT(v.id) FROM companies c
\* LEFT JOIN vacancies v ON c.id = v.company_id GROUP BY c.name
\* A company without a vacancy joins one all-NULL row, which COUNT(v.id) skips.
CountSQL(cs, vs) ==
    LET Joined(c) == {v \in vs : v.company_id = Some(c.id)}
        Group(n) == {c \in cs : c.name = n}
        Count(n) == Cardinality({<<c, v>> \in cs \X vs :
                                    c \in Group(n) /\ v \in Joined(c)})
    IN  SetToBag({<<n, Count(n)>> : n \in {c.name : c \in cs}})

\* Variant: the join written ON v.id = c.id.
AllVacanciesWrongKey(cs, vs) ==
    LET Pairs == {p \in vs \X cs : p[1].id = p[2].id}
        Row(p) == <<p[2].name, p[1].name, p[1].salary_from, p[1].salary_to, p[1].url>>
    IN  RowsOf(Pairs, Row)

\* SELECT c.name, v.name, v.salary_from, v.salary_to, v.url
\* FROM vacancies v JOIN companies c ON v.company_id = c.id
AllVacanciesSQL(cs, vs) ==
    LET Pairs == {p \in vs \X cs : p[1].company_id = Some(p[2].id)}
        Row(p) == <<p[2].name, p[1].name, p[1].salary_from, p[1].salary_to, p[1].url>>
    IN  RowsOf(Pairs, Row)

\* SELECT AVG((salary_from + salary_to) / 2) FROM vacancies
\* WHERE salary_from IS NOT NULL AND salary_to IS NOT NULL
\* AVG of no row is NULL; the exact quotient sum / count is kept as the pair.
AvgSalarySQL(vs) ==
    LET Q == {v \in vs : BothBounds(v)}
    IN  IF \E v \in Q : MidpointOverflows(v)
          THEN [status |-> "NumericValueOutOfRange", value |-> None]
        ELSE IF Q = {}
          THEN [status |-> "ok", value |-> None]
        ELSE [status |-> "ok",
              value |-> Some([sum |-> SumMidpoints(Q), count |-> Cardinality(Q)])]

\* int4 > numeric, where the numeric is sum / count.
GreaterThanAvg(m, avg) == m * avg.count > avg.sum

\* SELECT name, salary_from, salary_to, url FROM vacancies
\* WHERE ((salary_from + salary_to) / 2) > avg
\* psycopg2 writes a None average into the statement as the literal NULL; a
\* comparison with a constant NULL is NULL for every row, so the engine
\* answers no row without reading the table and the sum is never evaluated.
\* With a number, the sum is evaluated for the rows read and may overflow; a
\* NULL bound makes the comparison NULL and the row is left out.
HigherSalarySQL(vs, avg) ==
    LET Q == {v \in vs : BothBounds(v)}
        Row(v) == <<v.name, v.salary_from, v.salary_to, v.url>>
    IN  IF avg = None
          THEN [status |-> "ok", rows |-> EmptyBag]
        ELSE IF \E v \in Q : MidpointOverflows(v)
          THEN [status |-> "NumericValueOutOfRange", rows |-> EmptyBag]
        ELSE [status |-> "ok",
              rows |-> RowsOf({v \in Q : GreaterThanAvg(Midpoint(v), avg[1])}, Row)]

----------------------------------------------------------------------------
(* Python helpers of insert_vacancy. *)

\* x or d, for an int / a str / a dict that may be None.
OrInt(x, d) == IF x = None \/ x = Some(0) THEN d ELSE x[1]
OrStr(x, d) == IF x = None \/ x = Some("") THEN d ELSE x[1]
OrDict(x, d) == IF x = None \/ x = Some(<< >>) THEN d ELSE x[1]

required_keys == {"id", "name", "alternate_url"}
HasRequiredKeys(vacancy) == \A key \in required_keys : key \in DOMAIN vacancy

salary(vacancy) == OrDict(Get(vacancy, "salary"), << >>)
salary_from(vacancy) == OrInt(Get(salary(vacancy), "from"), 0)
\* Variant: the upper bound read from the key of the lower one.
salary_to_from_key(vacancy) == OrInt(Get(salary(vacancy), "from"), 0)
salary_to(vacancy) == OrInt(Get(salary(vacancy), "to"), 0)
currency(vacancy) == OrStr(Get(salary(vacancy), "currency"), "RUR")

\* Variant: no except clause, the error leaves the method.
Propagate(status) == status
\* except Exception as e: print(..); print(..)   -- nothing leaves the method.
Swallow(status) == "none"

----------------------------------------------------------------------------
(* The inputs the methods are called with. *)

CompanyKeys == {"id", "name", "alternate_url"}
\* Company records with every key present or absent, None or given ids, and a
\* name that is None or one of names.
CompanyDictsOf(names) ==
    { Restrict([id |-> i, name |-> n, alternate_url |-> u], K) :
        i \in {None} \cup {Some(c) : c \in CompanyIdValues},
        n \in {None} \cup {Some(s) : s \in names},
        u \in {Some("http://acme")},
        K \in SUBSET CompanyKeys }
CompanyDicts == CompanyDictsOf(CompanyNames \cup {LongName})
\* The same with one short name, the over-long one and the padded one.
PaddedCompanyDicts == CompanyDictsOf({"Acme", LongName, PaddedName})

CompanyIdArgs == {None} \cup {Some(c) : c \in CompanyIdValues}

\* Complete salary ranges from <= to of small amounts, in USD.
SalaryRanges ==
    { [from |-> Some(r[1]), to |-> Some(r[2]), currency |-> Some("USD")] :
        r \in {p \in SmallSalaries \X SmallSalaries : p[1] <= p[2]} }

\* Every shape of the salary sub-structure: each key absent, None or a value.
SalaryKeys == {"from", "to", "currency"}
SalaryDicts ==
    { Restrict([from |-> f, to |-> t, currency |-> c], K) :
        f \in {None} \cup {Some(x) : x \in SalaryValues},
        t \in {None} \cup {Some(x) : x \in SalaryValues},
        c \in {None} \cup {Some(s) : s \in CurrencyValues},
        K \in SUBSET SalaryKeys }

\* Vacancy records with every key present or absent, None or given ids, and a
\* salary that is absent, None or a complete range.
VacancyKeys == {"id", "name", "alternate_url", "salary"}
VacancyDicts ==
    { Restrict([id |-> i, name |-> n, alternate_url |-> u, salary |-> s], K) :
        i \in {None} \cup {Some(x) : x \in VacancyIdValues},
        n \in {Some("Engineer")},
        u \in {Some("http://acme/10")},
        s \in {None} \cup {Some(d) : d \in SalaryRanges},
        K \in SUBSET VacancyKeys }

\* What another instance stores meanwhile: the same records, and one whose
\* two bounds cannot be added in int4.
OtherVacancyDicts ==
    VacancyDicts \cup
    { [id |-> Some(11), name |-> Some("Engineer"),
       alternate_url |-> Some("http://acme/10"),
       salary |-> Some([from |-> Some(Big), to |-> Some(Big),
                        currency |-> Some("USD")])] }

\* Vacancy records of one id with the required keys and every shape of salary.
SalaryVacancyDicts ==
    { Restrict([id |-> Some(10), name |-> Some("Engineer"),
                alternate_url |-> Some("http://acme/10"), salary |-> s], K) :
        s \in {None} \cup {Some(d) : d \in SalaryDicts},
        K \in {VacancyKeys, required_keys} }

----------------------------------------------------------------------------
(* The methods.  The caller is single-threaded and synchronous: a method    *)
(* runs from "idle", and its arguments and outcome stay visible until the   *)
(* caller takes them (Return).  A method that issues one statement is one   *)
(* step.  get_vacancies_with_higher_salary issues two, each in a            *)
(* transaction of its own, so it is two steps, and between them another     *)
(* DBManager instance on its own connection may commit its inserts.         *)

\* __init__ / create_tables: both tables exist and are empty.
Init ==
    /\ companies = {}
    /\ vacancies = {}
    /\ op = "idle"
    /\ args = << >>
    /\ result = None
    /\ raised = "none"
    /\ printed = << >>
    /\ stmts = 0
    /\ pc = "caller"
    /\ avg_salary = None

insert_company(company) ==
    /\ op = "idle"
    /\ op' = "insert_company"
    /\ args' = [company |-> company]
    /\ result' = None
    /\ printed' = << >>
    /\ UNCHANGED <<vacancies, pc, avg_salary>>
    /\ IF ~(CompanyKeys \subseteq DOMAIN company)
         THEN /\ raised' = "KeyError"
              /\ stmts' = 0
              /\ UNCHANGED companies
         ELSE LET r == InsertCompanySQL(companies, company.id, company.name,
                                        company.alternate_url)
              IN  /\ companies' = r.rows
                  /\ raised' = IF r.status = "ok" THEN "none" ELSE r.status
                  /\ stmts' = 1

\* Variant: no check of the required keys, the fields read with .get().
insert_vacancy_unchecked(vacancy, company_id) ==
    /\ op = "idle"
    /\ op' = "insert_vacancy"
    /\ args' = [vacancy |-> vacancy, company_id |-> company_id]
    /\ result' = None
    /\ UNCHANGED <<companies, pc, avg_salary>>
    /\ LET r == InsertVacancySQL(companies, vacancies, Get(vacancy, "id"), company_id,
                    Get(vacancy, "name"), Some(salary_from(vacancy)),
                    Some(salary_to(vacancy)), Some(currency(vacancy)),
                    Get(vacancy, "alternate_url"))
       IN  /\ vacancies' = r.rows
           /\ stmts' = 1
           /\ raised' = "none"
           /\ printed' = IF r.status = "ok" THEN << >> ELSE <<r.status, vacancy>>

insert_vacancy(vacancy, company_id) ==
    /\ op = "idle"
    /\ op' = "insert_vacancy"
    /\ args' = [vacancy |-> vacancy, company_id |-> company_id]
    /\ result' = None
    /\ UNCHANGED <<companies, pc, avg_salary>>
    /\ IF ~HasRequiredKeys(vacancy)
         THEN /\ stmts' = 0
              /\ raised' = "none"
              /\ printed' = << >>
              /\ UNCHANGED vacancies
         ELSE LET r == InsertVacancySQL(companies, vacancies, vacancy.id, company_id,
                           vacancy.name, Some(salary_from(vacancy)),
                           Some(salary_to(vacancy)), Some(currency(vacancy)),
                           vacancy.alternate_url)
              IN  /\ vacancies' = r.rows
                  /\ stmts' = 1
                  /\ raised' = IF r.status = "ok" THEN "none" ELSE Swallow(r.status)
                  /\ printed' = IF r.status = "ok" THEN << >>
                                ELSE <<r.status, vacancy>>

get_companies_and_vacancies_count ==
    /\ op = "idle"
    /\ op' = "get_companies_and_vacancies_count"
    /\ args' = << >>
    /\ result' = Some(CountSQL(companies, vacancies))
    /\ raised' = "none"
    /\ printed' = << >>
    /\ stmts' = 1
    /\ UNCHANGED <<companies, vacancies, pc, avg_salary>>

get_all_vacancies ==
    /\ op = "idle"
    /\ op' = "get_all_vacancies"
    /\ args' = << >>
    /\ result' = Some(AllVacanciesSQL(companies, vacancies))
    /\ raised' = "none"
    /\ printed' = << >>
    /\ stmts' = 1
    /\ UNCHANGED <<companies, vacancies, pc, avg_salary>>

get_avg_salary ==
    /\ op = "idle"
    /\ op' = "get_avg_salary"
    /\ args' = << >>
    /\ LET r == AvgSalarySQL(vacancies)
       IN  /\ result' = r.value
           /\ raised' = IF r.status = "ok" THEN "none" ELSE r.status
    /\ printed' = << >>
    /\ stmts' = 1
    /\ UNCHANGED <<companies, vacancies, pc, avg_salary>>

\* Line 156, avg_salary = self.get_avg_salary(): the first statement.  An
\* error of it leaves the method; otherwise the average is kept in the local
\* and the method goes on to its own statement.
get_vacancies_with_higher_salary ==
    /\ op = "idle"
    /\ op' = "get_vacancies_with_higher_salary"
    /\ args' = << >>
    /\ result' = None
    /\ printed' = << >>
    /\ stmts' = 1
    /\ LET avg == AvgSalarySQL(vacancies)
       IN  IF avg.status # "ok"
             THEN /\ raised' = avg.status
                  /\ pc' = "caller"
                  /\ avg_salary' = None
             ELSE /\ raised' = "none"
                  /\ pc' = "filter"
                  /\ avg_salary' = avg.value
    /\ UNCHANGED <<companies, vacancies>>

\* Lines 157-164: the second statement, run on the table as it is now with
\* the average read by the first.
get_vacancies_with_higher_salary_filter ==
    /\ pc = "filter"
    /\ pc' = "caller"
    /\ LET r == HigherSalarySQL(vacancies, avg_salary)
       IN  /\ result' = IF r.status = "ok" THEN Some(r.rows) ELSE None
           /\ raised' = IF r.status = "ok" THEN "none" ELSE r.status
    /\ stmts' = 2
    /\ UNCHANGED <<companies, vacancies, op, args, printed, avg_salary>>

\* Another instance's insert_company, committed between the two statements.
\* Its KeyError and its database errors stay in the other caller.
other_insert_company(company) ==
    /\ pc = "filter"
    /\ CompanyKeys \subseteq DOMAIN company
    /\ companies' = InsertCompanySQL(companies, company.id, company.name,
                                     company.alternate_url).rows
    /\ UNCHANGED <<vacancies, op, args, result, raised, printed, stmts, pc, avg_salary>>

\* Another instance's insert_vacancy, committed between the two statements.
other_insert_vacancy(vacancy, company_id) ==
    /\ pc = "filter"
    /\ HasRequiredKeys(vacancy)
    /\ vacancies' = InsertVacancySQL(companies, vacancies, vacancy.id, company_id,
                         vacancy.name, Some(salary_from(vacancy)),
                         Some(salary_to(vacancy)), Some(currency(vacancy)),
                         vacancy.alternate_url).rows
    /\ UNCHANGED <<companies, op, args, result, raised, printed, stmts, pc, avg_salary>>

\* The call is over: the caller has the outcome and is free to call again.
Return ==
    /\ op # "idle"
    /\ pc = "caller"
    /\ op' = "idle"
    /\ args' = << >>
    /\ result' = None
    /\ raised' = "none"
    /\ printed' = << >>
    /\ stmts' = 0
    /\ avg_salary' = None
    /\ UNCHANGED <<companies, vacancies, pc>>

Next ==
    \/ \E company \in CompanyDicts : insert_company(company)
    \/ \E vacancy \in VacancyDicts, company_id \in CompanyIdArgs :
          insert_vacancy(vacancy, company_id)
    \/ get_companies_and_vacancies_count
    \/ get_all_vacancies
    \/ get_avg_salary
    \/ get_vacancies_with_higher_salary
    \/ get_vacancies_with_higher_salary_filter
    \/ \E company \in CompanyDicts : other_insert_company(company)
    \/ \E vacancy \in OtherVacancyDicts, company_id \in CompanyIdArgs :
          other_insert_vacancy(vacancy, company_id)
    \/ Return

Spec == Init /\ [][Next]_vars

\* The same methods, called with one vacancy id, every shape of salary and
\* company names around the length VARCHAR(255) takes.
NextSalary ==
    \/ \E company \in PaddedCompanyDicts : insert_company(company)
    \/ \E vacancy \in SalaryVacancyDicts, company_id \in CompanyIdArgs :
          insert_vacancy(vacancy, company_id)
    \/ get_companies_and_vacancies_count
    \/ get_all_vacancies
    \/ get_avg_salary
    \/ get_vacancies_with_higher_salary
    \/ get_vacancies_with_higher_salary_filter
    \/ \E company \in PaddedCompanyDicts : other_insert_company(company)
    \/ \E vacancy \in SalaryVacancyDicts, company_id \in CompanyIdArgs :
          other_insert_vacancy(vacancy, company_id)
    \/ Return

SpecSalary == Init /\ [][NextSalary]_vars

----------------------------------------------------------------------------
(* Properties. *)

TablesUnchanged == companies' = companies /\ vacancies' = vacancies

\* The id a record carries, None when the key is absent or the value is None.
IdOf(record) == Get(record, "id")
HasId(table, id) == id # None /\ \E r \in table : r.id = id[1]

\* C1: a call of insert_company (insert_vacancy) with a record whose id is
\* already in companies (vacancies) leaves both tables exactly as they were,
\* whatever the other fields of the record are, and exactly one row has that id.
C1_InsertExistingIdIsNoOp ==
    [][ /\ (op' = "insert_company" /\ HasId(companies, IdOf(args'.company)))
            => /\ TablesUnchanged
               /\ Cardinality({c \in companies' : c.id = IdOf(args'.company)[1]}) = 1
        /\ (op' = "insert_vacancy" /\ HasId(vacancies, IdOf(args'.vacancy)))
            => /\ TablesUnchanged
               /\ Cardinality({v \in vacancies' : v.id = IdOf(args'.vacancy)[1]}) = 1
      ]_vars

\* insert_company has run its statement on a record whose id belongs to a row
\* with another name, while vacancies is not empty.
C1_Witness ==
    /\ op = "insert_company"
    /\ stmts = 1
    /\ CompanyKeys \subseteq DOMAIN args.company
    /\ args.company.name # None
    /\ args.company.id # None
    /\ \E c \in companies : c.id = IdOf(args.company)[1] /\ c.name # args.company.name[1]
    /\ vacancies # {}

\* C2: insert_vacancy with a record that lacks "id", "name" or "alternate_url"
\* changes no table, issues no statement and raises nothing.
C2_MissingKeySkips ==
    [][ (op' = "insert_vacancy" /\ ~(required_keys \subseteq DOMAIN args'.vacancy))
          => /\ TablesUnchanged
             /\ stmts' = 0
             /\ raised' = "none"
      ]_vars

\* insert_vacancy has returned on a record that lacks only "name" and whose id
\* is not in the table, with a company_id that is.
C2_Witness ==
    /\ op = "insert_vacancy"
    /\ DOMAIN args.vacancy = VacancyKeys \ {"name"}
    /\ args.vacancy.id # None
    /\ ~HasId(vacancies, args.vacancy.id)
    /\ HasId(companies, args.company_id)
    /\ stmts = 0
    /\ raised = "none"

\* What the caller supplied under salary[key]: None when salary is absent or
\* None, or when the key is absent or None in it.
Supplied(vacancy, key) ==
    LET s == Get(vacancy, "salary")
    IN  IF s = None THEN None ELSE Get(s[1], key)

\* The row insert_vacancy has just stored, if it stored one.
Stored == vacancies' \ vacancies
NoNullSalary(vs) ==
    \A v \in vs : v.salary_from # None /\ v.salary_to # None /\ v.currency # None

\* C3 as stated: the row stored by insert_vacancy has salary_from = 0 when
\* "from" is absent or null, salary_to = 0 when "to" is absent or null,
\* currency = "RUR" when "currency" is absent or null, and the supplied value
\* otherwise; no row has a null salary_from, salary_to or currency.
C3_DefaultsOnlyWhenAbsentOrNull ==
    [][ /\ op' = "insert_vacancy"
            => \A v \in Stored :
                 LET f == Supplied(args'.vacancy, "from")
                     t == Supplied(args'.vacancy, "to")
                     c == Supplied(args'.vacancy, "currency")
                 IN  /\ v.salary_from = IF f = None THEN Some(0) ELSE f
                     /\ v.salary_to = IF t = None THEN Some(0) ELSE t
                     /\ v.currency = IF c = None THEN Some("RUR") ELSE c
        /\ NoNullSalary(vacancies')
      ]_vars

\* The first n characters of s, all of s when it has no more.
FirstChars(s, n) == IF Len(s) <= n THEN s ELSE SubSeq(s, 1, n)

\* C3, amended: as above, but currency = "RUR" also when the supplied
\* currency is the empty string, and a supplied currency of more than ten
\* characters is stored as its first ten.
C3_SalaryDefaults ==
    [][ /\ op' = "insert_vacancy"
            => \A v \in Stored :
                 LET f == Supplied(args'.vacancy, "from")
                     t == Supplied(args'.vacancy, "to")
                     c == Supplied(args'.vacancy, "currency")
                 IN  /\ v.salary_from = IF f = None THEN Some(0) ELSE f
                     /\ v.salary_to = IF t = None THEN Some(0) ELSE t
                     /\ v.currency = IF c = None \/ c = Some("") THEN Some("RUR")
                                     ELSE Some(FirstChars(c[1], VarcharCurrency))
        /\ NoNullSalary(vacancies')
      ]_vars

\* insert_vacancy has stored a record whose salary gives a null "from", a
\* "to" and the currency "USD" followed by eight spaces: the row reads
\* 0 / supplied / "USD" followed by seven spaces.
C3_Witness ==
    /\ op = "insert_vacancy"
    /\ HasRequiredKeys(args.vacancy)
    /\ Get(args.vacancy, "salary") # None
    /\ LET s == args.vacancy.salary[1]
       IN  /\ DOMAIN s = SalaryKeys
           /\ s.from = None
           /\ s.to = Some(1)
           /\ s.currency = Some("USD        ")
    /\ \E v \in vacancies :
          /\ v.id = args.vacancy.id[1]
          /\ v.company_id = args.company_id
          /\ v.company_id # None
          /\ v.salary_from = Some(0)
          /\ v.salary_to = Some(1)
          /\ v.currency = Some("USD       ")

\* The database rejects the INSERT of a record that has the required keys:
\* its id is null, or its id is new and company_id names no company.
Rejected(vacancy, company_id) ==
    /\ required_keys \subseteq DOMAIN vacancy
    /\ \/ vacancy.id = None
       \/ /\ ~HasId(vacancies, vacancy.id)
          /\ company_id # None
          /\ ~HasId(companies, company_id)

\* The database accepts the INSERT: new id, company_id null or of a company,
\* currency of at most ten characters.
Acceptable(vacancy, company_id) ==
    /\ required_keys \subseteq DOMAIN vacancy
    /\ vacancy.id # None
    /\ ~HasId(vacancies, vacancy.id)
    /\ company_id = None \/ HasId(companies, company_id)
    /\ Supplied(vacancy, "currency") = None
          \/ Len(Supplied(vacancy, "currency")[1]) <= VarcharCurrency

\* C4: when the database rejects the insert, insert_vacancy returns normally,
\* having printed the error, and both tables are unchanged; and from every
\* state, those left by a rejected insert included, insert_vacancy with an
\* acceptable record stores its row.
C4_BestEffortWrite ==
    [][ /\ (op' = "insert_vacancy" /\ Rejected(args'.vacancy, args'.company_id))
            => /\ raised' = "none"
               /\ printed' # << >>
               /\ TablesUnchanged
        /\ (op' = "insert_vacancy" /\ Acceptable(args'.vacancy, args'.company_id))
            => /\ raised' = "none"
               /\ Cardinality(Stored) = 1
               /\ \A v \in Stored : v.id = args'.vacancy.id[1]
      ]_vars

\* insert_vacancy has returned normally from a foreign-key violation while the
\* other vacancy id is already stored: the batch went on around the bad record.
C4_Witness ==
    /\ op = "insert_vacancy"
    /\ raised = "none"
    /\ printed # << >>
    /\ printed[1] = "ForeignKeyViolation"
    /\ args.vacancy.id # None
    /\ ~HasId(vacancies, args.vacancy.id)
    /\ vacancies # {}

SchemaInvariant ==
    /\ \A c1, c2 \in companies : (c1.id = c2.id \/ c1.name = c2.name) => c1 = c2
    /\ \A v1, v2 \in vacancies : v1.id = v2.id => v1 = v2
    /\ \A v \in vacancies : v.company_id = None \/ HasId(companies, v.company_id)

\* C5: in every reachable state no two companies share an id or a name, no
\* two vacancies share an id, every vacancy's company_id is null or the id of
\* a company; a vacancy is stored only with a company_id that is null or was
\* in companies before the call, and no company row is ever removed or changed.
C5_SchemaInvariants ==
    [][ /\ SchemaInvariant
        /\ SchemaInvariant'
        /\ \A v \in Stored : v.company_id = None \/ HasId(companies, v.company_id)
        /\ companies \subseteq companies'
        /\ vacancies \subseteq vacancies'
      ]_vars

\* Two companies and two vacancies are stored, one vacancy with a null
\* company_id and one with a company's id.
C5_Witness ==
    /\ Cardinality(companies) = 2
    /\ Cardinality(vacancies) = 2
    /\ \E v \in vacancies : v.company_id = None
    /\ \E v \in vacancies : v.company_id # None

\* The vacancies with both salary bounds, and the sum of their bounds.
WithBounds == {v \in vacancies : v.salary_from # None /\ v.salary_to # None}
RECURSIVE SumBounds(_)
SumBounds(rows) ==
    IF rows = {} THEN 0
    ELSE LET v == CHOOSE r \in rows : TRUE
         IN  v.salary_from[1] + v.salary_to[1] + SumBounds(rows \ {v})

\* C6: get_avg_salary returns the mean of the midpoints (salary_from +
\* salary_to) / 2 of the vacancies with both bounds, that is
\* SumBounds / (2 * number of rows), and null, without an error, when there is
\* no such vacancy.
C6_AvgIsMeanOfMidpoints ==
    op = "get_avg_salary" =>
        /\ raised = "none"
        /\ WithBounds = {} => result = None
        /\ WithBounds # {} =>
              /\ result # None
              /\ result[1].sum * 2 * Cardinality(WithBounds)
                    = SumBounds(WithBounds) * result[1].count

\* C7: get_vacancies_with_higher_salary returns the (name, salary_from,
\* salary_to, url) of exactly the vacancies whose midpoint (salary_from +
\* salary_to) / 2 is strictly greater than what get_avg_salary returns in the
\* same state, and nothing, without an error, when that average is null.
C7_HigherThanAvg ==
    (op = "get_vacancies_with_higher_salary" /\ pc = "caller") =>
        LET avg == AvgSalarySQL(vacancies).value
            Above == {v \in WithBounds :
                        /\ avg # None
                        /\ (v.salary_from[1] + v.salary_to[1]) * avg[1].count
                              > 2 * avg[1].sum}
            Row(v) == <<v.name, v.salary_from, v.salary_to, v.url>>
        IN  /\ raised = "none"
            /\ result # None
            /\ \A v \in vacancies :
                  CopiesIn(Row(v), result[1])
                     = Cardinality({w \in Above : Row(w) = Row(v)})
            /\ BagCardinality(result[1]) = Cardinality(Above)

VacanciesOf(c) == {v \in vacancies : v.company_id = Some(c.id)}

\* C8: get_companies_and_vacancies_count returns exactly one (name, count)
\* pair per company, companies without vacancies included with count 0, where
\* count is the number of vacancies whose company_id is the company's id.
C8_CountPerCompany ==
    op = "get_companies_and_vacancies_count" =>
        /\ raised = "none"
        /\ result # None
        /\ BagCardinality(result[1]) = Cardinality(companies)
        /\ \A c \in companies :
              CopiesIn(<<c.name, Cardinality(VacanciesOf(c))>>, result[1]) = 1

\* The count query has answered ("Acme", 1) for company 1 with vacancy 10 and
\* a pair with count 0 for the other company.
C8_Witness ==
    /\ op = "get_companies_and_vacancies_count"
    /\ \E c \in companies : c.id = 1 /\ c.name = "Acme" /\ {v.id : v \in VacanciesOf(c)} = {10}
    /\ CopiesIn(<<"Acme", 1>>, result[1]) = 1
    /\ CopiesIn(<<"Beta", 0>>, result[1]) = 1

Resolved == {v \in vacancies : HasId(companies, v.company_id)}
CompanyOf(v) == CHOOSE c \in companies : c.id = v.company_id[1]
JoinedRow(v) == <<CompanyOf(v).name, v.name, v.salary_from, v.salary_to, v.url>>

\* C9: get_all_vacancies returns one (company name, vacancy name, salary_from,
\* salary_to, url) tuple for every vacancy whose company_id is the id of a
\* company and none for any other vacancy, with the stored field values; so
\* it has as many tuples as there are vacancies with a non-null company_id.
C9_AllVacanciesJoin ==
    op = "get_all_vacancies" =>
        /\ raised = "none"
        /\ result # None
        /\ \A t \in BagToSet(result[1]) \cup {JoinedRow(v) : v \in Resolved} :
              CopiesIn(t, result[1]) = Cardinality({v \in Resolved : JoinedRow(v) = t})
        /\ BagCardinality(result[1])
              = Cardinality({v \in vacancies : v.company_id # None})

\* get_all_vacancies has answered one tuple, that of the spec's example, for
\* two stored vacancies of which one has a null company_id.
C9_Witness ==
    /\ op = "get_all_vacancies"
    /\ Cardinality(vacancies) = 2
    /\ \E v \in vacancies : v.company_id = None
    /\ BagCardinality(result[1]) = 1
    /\ CopiesIn(<<"Acme", Some("Engineer"), Some(0), Some(1), Some("http://acme/10")>>,
                result[1]) = 1

\* C10: insert_company with all its keys, an id that is not yet stored and a
\* name that is null or belongs to a stored company raises the database's
\* error and leaves both tables unchanged; insert_vacancy never raises.
C10_WriterAsymmetry ==
    [][ /\ ( /\ op' = "insert_company"
             /\ CompanyKeys \subseteq DOMAIN args'.company
             /\ args'.company.id # None
             /\ ~HasId(companies, args'.company.id)
             /\ \/ args'.company.name = None
                \/ \E c \in companies : c.name = args'.company.name[1] )
            => /\ raised' = IF args'.company.name = None THEN "NotNullViolation"
                            ELSE "UniqueViolation"
               /\ TablesUnchanged
        /\ op' = "insert_vacancy" => raised' = "none"
      ]_vars

\* insert_company has raised on a new id with the name of a stored company.
C10_Witness ==
    /\ op = "insert_company"
    /\ raised = "UniqueViolation"
    /\ ~HasId(companies, args.company.id)
    /\ \E c \in companies : c.name = args.company.name[1]
    /\ vacancies # {}

====
